---------------------------- MODULE Spec2Model ----------------------------
(***************************************************************************)
(* The two debug route handlers of the Smart Code Debugging Agent:         *)
(*   "fallback" - the Gemini handler with the three-model fallback loop    *)
(*                (src/unnamed/part_002)                                   *)
(*   "multi"    - the multi-provider handler gemini / ollama / groq        *)
(*                (src/app/layout.tsx, from line 86)                       *)
(*                                                                         *)
(* Text is modelled as a sequence of segments.  A substring test           *)
(* (String.includes, startsWith) is a test on segments, and a backend      *)
(* reply is a sequence of tokens: prose, whitespace, a code fence, the     *)
(* text of a JSON object, a brace-delimited text that is not JSON, the     *)
(* text "null".                                                            *)
(***************************************************************************)
EXTENDS Integers, Sequences, FiniteSets, TLC

VARIABLES handler,            \* which route serves the request
          env,                \* process.env as read by the handler
          request,            \* the submission on the wire
          pc,                 \* "idle", "awaiting" (backend call outstanding), "done"
          decoded,            \* formData was parsed into file and code
          file, code,         \* the locals file and code
          userPrompt, parts,  \* the prompt under construction, the parts sent
          currentModelIndex,  \* index into modelNamesToTry (0-based, as in the code)
          attempt,            \* loop counter of the fallback loop
          lastError,          \* the local lastError
          calls,              \* instrumentation: backend calls issued, in order
          replies,            \* instrumentation: the class of each reply, in order
          outstanding,        \* instrumentation: backend calls in flight
          content,            \* the raw backend text
          response,           \* the HTTP response of the handler
          rawText, recovered, \* result recovery on its own: a raw text, what it gave
          inflight,           \* concurrent requests to the fallback handler
          page                \* the page component: its state hooks, its fetches

hvars == <<handler, env, request, pc, decoded, file, code, userPrompt, parts,
           currentModelIndex, attempt, lastError, calls, replies, outstanding,
           content, response>>

rvars == <<rawText, recovered>>

cvars == <<inflight>>

pvars == <<page>>

vars == <<hvars, rvars, cvars, pvars>>

(***************************************************************************)
(* Bounds of the model                                                     *)
(***************************************************************************)
MaxCodeLen == 1          \* longest rawCode, in characters
MaxContentLen == 1       \* longest backend reply, in tokens

(***************************************************************************)
(* Sequences                                                               *)
(***************************************************************************)
SeqsUpTo(S, n) == UNION {[1..k -> S] : k \in 0..n}

Includes(text, seg) == \E i \in 1..Len(text) : text[i] = seg

StartsWith(text, seg) == Len(text) > 0 /\ text[1] = seg

RECURSIVE Join(_)
Join(names) ==
    IF Len(names) = 0 THEN << >>
    ELSE IF Len(names) = 1 THEN <<names[1]>>
    ELSE <<names[1], ", ">> \o Join(Tail(names))

ContainsSeq(text, sub) ==
    \E i \in 0..(Len(text) - Len(sub)) :
        \A j \in 1..Len(sub) : text[i + j] = sub[j]

\* String.prototype.trim on a string of the characters " " and "x"
RECURSIVE TrimStart(_)
TrimStart(s) == IF Len(s) > 0 /\ s[1] = " " THEN TrimStart(Tail(s)) ELSE s

RECURSIVE TrimEnd(_)
TrimEnd(s) ==
    IF Len(s) > 0 /\ s[Len(s)] = " " THEN TrimEnd(SubSeq(s, 1, Len(s) - 1)) ELSE s

Trim(s) == TrimEnd(TrimStart(s))


(***************************************************************************)
(* JavaScript values                                                       *)
(***************************************************************************)
\* a string literal; "" is the empty string
JStr(s) == [t |-> "string", v |-> s, text |-> << >>]

\* the string holding a raw backend text
RawStr(c) == [t |-> "string", v |-> IF Len(c) = 0 THEN "" ELSE "raw", text |-> c]

Undefined == [t |-> "undefined", v |-> "", text |-> << >>]

\* a JSON number, by its decimal text
JNum(n) == [t |-> "number", v |-> n, text |-> << >>]

\* ToBoolean: undefined, the empty string and 0 are falsy
Truthy(x) == (x.t = "string" /\ x.v # "") \/ (x.t = "number" /\ x.v # "0")

\* a || b
Or(a, b) == IF Truthy(a) THEN a ELSE b

\* o.k for an object o
Get(o, k) == IF k \in DOMAIN o THEN o[k] ELSE Undefined

EmptyObject == [k \in {} |-> Undefined]

(***************************************************************************)
(* Backend replies: tokens and the JSON objects they may hold              *)
(***************************************************************************)
Tok(t) == [t |-> t, o |-> EmptyObject]

ObjTok(o) == [t |-> "obj", o |-> o]

\* the text of an object up to the opening quote of its last value, the
\* string fixedCode: the keys before it are those of o
OpenTok(o) == [t |-> "open", o |-> o]

\* the objects a backend may answer with: the object of the end-to-end
\* scenario, and the same with no fix to offer
ObjectPool ==
    { [errorExplanation |-> JStr("x is undefined"),
       reasoning |-> JStr("x was never assigned"),
       fixedCode |-> JStr(f)] : f \in {"", "x = 1\nprint(x)"} }

MarkTokens == {Tok("prose"), Tok("fence"), Tok("bad"), Tok("null")}

\* the raw texts a backend may return, the empty text included
Contents == UNION {SeqsUpTo(MarkTokens \cup {ObjTok(o)}, MaxContentLen) : o \in ObjectPool}

IsFence(tok) == tok.t \in {"fence", "fencejson"}

\* the token's text starts with "{", and has no other "{" a match could
\* start at
StartsBrace(tok) == tok.t \in {"obj", "bad", "open"}

\* the token's text ends with "}"; "close" is the closing quote and brace
EndsBrace(tok) == tok.t \in {"obj", "bad", "close"}

\* tokens whose text may stand inside a JSON string: no quote, no newline
StringSafe(tok) ==
    tok.t \in {"prose", "fence", "fencejson", "bad", "num", "arr", "true", "null"}

SetMin(S) == CHOOSE x \in S : \A y \in S : x <= y

SetMax(S) == CHOOSE x \in S : \A y \in S : x >= y

\* the first position from i on that is not whitespace (Len + 1 if none)
SkipWs(text, i) ==
    SetMin({j \in i..(Len(text) + 1) : j = Len(text) + 1 \/ text[j].t # "ws"})

StripWs(text) ==
    LET first == SkipWs(text, 1)
        keep == {j \in 1..Len(text) : text[j].t # "ws"}
    IN  IF keep = {} THEN << >> ELSE SubSeq(text, first, SetMax(keep))

SyntaxError == [message |-> <<"Unexpected token in JSON">>, status |-> 0, stack |-> TRUE]

TypeError == [message |-> <<"Cannot read properties of null">>, status |-> 0, stack |-> TRUE]

\* JSON.parse: the text of one JSON value, whitespace around it allowed; a
\* number, string, array or boolean has none of the seven keys read later
JSONParse(text) ==
    LET s == StripWs(text)
    IN  IF Len(s) = 1 /\ s[1].t = "obj"
        THEN [ok |-> TRUE, t |-> "object", o |-> s[1].o]
        ELSE IF /\ Len(s) >= 2 /\ s[1].t = "open" /\ s[Len(s)].t = "close"
                /\ \A i \in 2..(Len(s) - 1) : StringSafe(s[i])
        THEN [ok |-> TRUE, t |-> "object",
              o |-> [k \in DOMAIN s[1].o \cup {"fixedCode"} |->
                        IF k = "fixedCode" THEN RawStr(SubSeq(s, 2, Len(s) - 1))
                        ELSE s[1].o[k]]]
        ELSE IF Len(s) = 1 /\ s[1].t = "null"
        THEN [ok |-> TRUE, t |-> "null", o |-> EmptyObject]
        ELSE IF Len(s) = 1 /\ s[1].t \in {"num", "str", "arr", "true"}
        THEN [ok |-> TRUE, t |-> "primitive", o |-> EmptyObject]
        ELSE [ok |-> FALSE, t |-> "throw", o |-> EmptyObject]

\* content.match(/```(?:json)?\s*(\{[\s\S]*\})\s*```/): leftmost opening
\* fence, then the longest span from a "{" to a "}" that a fence follows
FencedEnds(text, i) ==
    LET j == SkipWs(text, i + 1)
    IN  IF j > Len(text) \/ ~StartsBrace(text[j]) THEN {}
        ELSE {k \in j..Len(text) :
                /\ EndsBrace(text[k])
                /\ LET m == SkipWs(text, k + 1)
                   IN  m <= Len(text) /\ IsFence(text[m])}

FencedStarts(text) ==
    {i \in 1..Len(text) : IsFence(text[i]) /\ FencedEnds(text, i) # {}}

MatchFenced(text) ==
    IF FencedStarts(text) = {} THEN [found |-> FALSE, group |-> << >>]
    ELSE LET i == SetMin(FencedStarts(text))
         IN  [found |-> TRUE,
              group |-> SubSeq(text, SkipWs(text, i + 1), SetMax(FencedEnds(text, i)))]

\* content.match(/\{[\s\S]*\}/): from the first "{" to the last "}"
MatchBraces(text) ==
    LET P == {p \in 1..Len(text) : StartsBrace(text[p])}
        Q == {q \in 1..Len(text) : EndsBrace(text[q])}
    IN  IF P = {} \/ Q = {} \/ SetMax(Q) < SetMin(P) THEN [found |-> FALSE, group |-> << >>]
        ELSE [found |-> TRUE, group |-> SubSeq(text, SetMin(P), SetMax(Q))]

\* content.match(fenced) || content.match(braces), then jsonMatch[1] || jsonMatch[0]
JsonMatch(text) ==
    LET fenced == MatchFenced(text)
    IN  IF fenced.found THEN fenced ELSE MatchBraces(text)

FallbackResult(text) ==
    [errorExplanation |-> RawStr(text),
     reasoning |-> JStr("AI analysis completed"),
     fixedCode |-> JStr("See explanation above")]

\* "Parse JSON response": the value of the local result, or the exception
ParseResponse(text) ==
    LET whole == JSONParse(text)
        jsonMatch == JsonMatch(text)
    IN  IF whole.ok THEN whole
        ELSE IF jsonMatch.found THEN JSONParse(jsonMatch.group)
        ELSE [ok |-> TRUE, t |-> "object", o |-> FallbackResult(text)]

\* "Ensure all required fields exist"
DebugResult(o) ==
    [errorExplanation |->
        Or(Or(Get(o, "errorExplanation"), Get(o, "explanation")),
           JStr("No error explanation provided")),
     reasoning |->
        Or(Or(Get(o, "reasoning"), Get(o, "reason")), JStr("No reasoning provided")),
     fixedCode |->
        Or(Or(Or(Get(o, "fixedCode"), Get(o, "code")), Get(o, "correctedCode")),
           JStr("No fixed code provided"))]

\* parse and resolve: the DebugResult, or the exception thrown on the way
Recover(text) ==
    LET r == ParseResponse(text)
    IN  IF ~r.ok THEN [threw |-> TRUE, error |-> SyntaxError, result |-> EmptyObject]
        ELSE IF r.t = "null" THEN [threw |-> TRUE, error |-> TypeError, result |-> EmptyObject]
        ELSE [threw |-> FALSE, error |-> SyntaxError, result |-> DebugResult(r.o)]

(***************************************************************************)
(* Inputs: environment, submissions, backend errors                        *)
(***************************************************************************)
ImageLimit == 10 * 1024 * 1024

TextLimit == 1024 * 1024

FileSizes == {TextLimit, TextLimit + 1, ImageLimit, ImageLimit + 1}

\* declared media types; the empty sequence is the empty string
MediaTypes == {<<"image/", "png">>, <<"text/", "plain">>, << >>}

NoFile == [present |-> FALSE, type |-> << >>, size |-> 0, bytes |-> ""]

Files == {[present |-> TRUE, type |-> t, size |-> n, bytes |-> "bytes"] :
            t \in MediaTypes, n \in FileSizes}

\* formData.get('code'): null, or a string of the characters " " and "x"
NoCode == [present |-> FALSE, text |-> << >>]

Codes == {[present |-> TRUE, text |-> c] : c \in SeqsUpTo({" ", "x"}, MaxCodeLen)}

Requests ==
    {[formOk |-> FALSE, file |-> NoFile, code |-> NoCode]} \cup
    {[formOk |-> TRUE, file |-> f, code |-> c] :
        f \in Files \cup {NoFile}, c \in Codes \cup {NoCode}}

NodeEnvs == {"development", "production"}

\* ALT_KEY stands for GOOGLE_API_KEY || GEMINI_KEY; a key is set or not
EnvsFallback ==
    {[AI_PROVIDER |-> "", GEMINI_API_KEY |-> g, ALT_KEY |-> a,
      GROQ_API_KEY |-> FALSE, NODE_ENV |-> n] :
        g \in BOOLEAN, a \in BOOLEAN, n \in NodeEnvs}

EnvsMulti ==
    {[AI_PROVIDER |-> p, GEMINI_API_KEY |-> g, ALT_KEY |-> FALSE,
      GROQ_API_KEY |-> q, NODE_ENV |-> n] :
        p \in {"", "gemini", "ollama", "groq", "huggingface"},
        g \in BOOLEAN, q \in BOOLEAN, n \in NodeEnvs}

\* errors a backend call may fail with; status 0 is an absent status
ErrModelNotFound ==
    [message |-> <<"models/gemini is ", "not found", " for API version v1beta">>,
     status |-> 404, stack |-> TRUE]

Err404 == [message |-> <<"[", "404", " Not Found] no such model">>, status |-> 0, stack |-> TRUE]

ErrQuota == [message |-> <<"quota exceeded">>, status |-> 429, stack |-> TRUE]

ErrNoMessage == [message |-> << >>, status |-> 0, stack |-> FALSE]

\* an error of the given HTTP status, as the SDK attaches it to a failed fetch
ErrWithStatus(status) ==
    [message |-> <<"[GoogleGenerativeAI Error]: The model is overloaded">>,
     status |-> status, stack |-> TRUE]

\* statuses on both sides of the window the handler passes through
EdgeStatuses == {399, 400, 599, 600}

BackendErrors ==
    {ErrModelNotFound, Err404, ErrQuota, ErrNoMessage}
    \cup {ErrWithStatus(status) : status \in EdgeStatuses}

\* instrumentation: what a backend call came back with
Resolved == [ok |-> TRUE, err |-> [message |-> << >>, status |-> 0, stack |-> FALSE]]

Rejected(err) == [ok |-> FALSE, err |-> err]

NoError == [message |-> << >>, status |-> 0, stack |-> FALSE]

(***************************************************************************)
(* Responses                                                               *)
(***************************************************************************)
NoResponse ==
    [kind |-> "none", status |-> 0, error |-> << >>, details |-> "absent",
     result |-> EmptyObject]

\* NextResponse.json({error, details}, {status}); an undefined details is
\* dropped by the serialisation
ErrorResponse(status, error, details) ==
    [kind |-> "error", status |-> status, error |-> error, details |-> details,
     result |-> EmptyObject]

\* NextResponse.json(debugResult)
ResultResponse(debugResult) ==
    [kind |-> "result", status |-> 200, error |-> << >>, details |-> "absent",
     result |-> debugResult]

\* mutant: the stack is returned in every mode
DetailsAlways(e, err) == IF err.stack THEN "stack" ELSE "absent"

\* process.env.NODE_ENV === 'development' ? error?.stack : undefined
Details(e, err) ==
    IF e.NODE_ENV = "development" /\ err.stack THEN "stack" ELSE "absent"

\* a || 'default' on a message
MessageOr(message, default) == IF message # << >> THEN message ELSE <<default>>

Digit(n) ==
    CASE n = 0 -> "0" [] n = 1 -> "1" [] n = 2 -> "2" [] n = 3 -> "3" [] n = 4 -> "4"
      [] n = 5 -> "5" [] n = 6 -> "6" [] n = 7 -> "7" [] n = 8 -> "8" [] n = 9 -> "9"

\* the decimal digits of a natural number, as in a template literal
RECURSIVE Digits(_)
Digits(n) == IF n < 10 THEN <<Digit(n)>> ELSE Digits(n \div 10) \o <<Digit(n % 10)>>

FormDataError == ErrorResponse(400, <<"Failed to parse form data: ", "Unknown error">>, "absent")

NoInputError == ErrorResponse(400, <<"Please provide either code or a file">>, "absent")

TooLargeError(maxSize) ==
    ErrorResponse(400,
        <<"File is too large. Maximum size: ">> \o Digits((maxSize \div 1024) \div 1024)
            \o <<"MB">>,
        "absent")

(***************************************************************************)
(* Input normalisation                                                     *)
(***************************************************************************)
OctetStream == <<"application/", "octet-stream">>

\* file.type || 'application/octet-stream'
FileType(f) == IF f.type # << >> THEN f.type ELSE OctetStream

IsImage(type) == StartsWith(type, "image/")

\* mutant: one ceiling for every media type
MaxSizeOneLimit(type) == ImageLimit

MaxSize(type) == IF IsImage(type) THEN ImageLimit ELSE TextLimit

\* mutant: an artifact of exactly the limit is refused
TooLargeInclusive(f) == f.size >= MaxSize(FileType(f))

\* buffer.length > maxSize
TooLarge(f) == f.size > MaxSize(FileType(f))

\* mutant: a null code is not seen as missing
CodeFalsyEmptyOnly(c) == c.present /\ c.text = << >>

\* !code, for code a string or null
CodeFalsy(c) == ~c.present \/ c.text = << >>

\* code && code.trim()
CodeNonBlank(c) == ~CodeFalsy(c) /\ Trim(c.text) # << >>

Lit(s) == [k |-> "lit", v |-> <<s>>]

SystemPromptFallback == Lit("systemPrompt: ... If the input is an image, analyze it carefully")

SystemPromptMulti == Lit("systemPrompt")

ImageInstruction == <<Lit("Please analyze this image for code errors. ... Respond in JSON")>>

\* the instruction embedding a text: buffer.toString('utf-8') or the code
AnalyzeInstruction(piece) ==
    <<Lit("Please analyze this code for errors:"), piece, Lit("Identify any errors ...")>>

TextContent(f) == [k |-> "utf8", v |-> <<f.bytes>>]

CodeContent(c) == [k |-> "code", v |-> c.text]

InlinePart(f) ==
    [kind |-> "inlineData", mimeType |-> FileType(f), data |-> <<"base64", f.bytes>>,
     text |-> << >>]

TextPart(t) == [kind |-> "text", mimeType |-> << >>, data |-> << >>, text |-> t]

(***************************************************************************)
(* The Gemini handler with model fallback                                  *)
(***************************************************************************)
ModelNamesToTry == <<"gemini-1.5-flash", "gemini-1.5-pro", "gemini-pro">>

\* getGeminiClient returns a client: GEMINI_API_KEY, else GOOGLE_API_KEY || GEMINI_KEY
GeminiClientFallback(e) == e.GEMINI_API_KEY \/ e.ALT_KEY

NoKeyError ==
    ErrorResponse(500, <<"Gemini API key is not configured. ", "GEMINI_API_KEY=your_api_key_here">>,
                  "absent")

Locals0 ==
    [returned |-> FALSE, response |-> NoResponse, decoded |-> FALSE, file |-> NoFile,
     code |-> NoCode, userPrompt |-> << >>, parts |-> << >>]

Return(locals, resp) == [locals EXCEPT !.returned = TRUE, !.response = resp]

\* userPrompt = systemPrompt, += the file instruction, += the code instruction
FallbackUserPrompt(f, c) ==
    <<SystemPromptFallback>>
    \o (IF ~f.present THEN << >>
        ELSE IF IsImage(FileType(f)) THEN ImageInstruction
        ELSE AnalyzeInstruction(TextContent(f)))
    \o (IF CodeNonBlank(c) THEN AnalyzeInstruction(CodeContent(c)) ELSE << >>)

\* the image first, the text prompt always last
FallbackParts(f, c) ==
    (IF f.present /\ IsImage(FileType(f)) THEN <<InlinePart(f)>> ELSE << >>)
    \o <<TextPart(FallbackUserPrompt(f, c))>>

\* POST up to the first generateContent: the locals, and the response if
\* the handler returned early
FallbackNormalize(e, r) ==
    IF ~GeminiClientFallback(e) THEN Return(Locals0, NoKeyError)
    ELSE IF ~r.formOk THEN Return(Locals0, FormDataError)
    ELSE LET d == [Locals0 EXCEPT !.decoded = TRUE, !.file = r.file, !.code = r.code]
         IN  IF ~r.file.present /\ CodeFalsy(r.code) THEN Return(d, NoInputError)
             ELSE IF r.file.present /\ TooLarge(r.file)
             THEN Return(d, TooLargeError(MaxSize(FileType(r.file))))
             ELSE [d EXCEPT !.userPrompt = FallbackUserPrompt(r.file, r.code),
                            !.parts = FallbackParts(r.file, r.code)]

Call(provider, model, sent) == [provider |-> provider, model |-> model, sent |-> sent]

\* mutant: the index is not advanced, the same model is tried again
NextModelIndexStay(i) == i

\* mutant: the index wraps around before the end of the list
NextModelIndexWrap(i) == (i + 1) % 2

\* currentModelIndex++
NextModelIndex(i) == i + 1

\* mutant: the '404' test forgotten
IsNotFoundLiteralOnly(message) == Includes(message, "not found")

\* mutant: every error class falls back to the next model
IsNotFoundAnyError(message) == TRUE

\* errorMessage.includes('not found') || errorMessage.includes('404')
IsNotFound(message) == Includes(message, "not found") \/ Includes(message, "404")

\* mutant: the last candidate also goes on to a next one
MoreModelsOffByOne(n) == n < Len(ModelNamesToTry)

\* attempt < modelNamesToTry.length - 1
MoreModels(n) == n < Len(ModelNamesToTry) - 1

\* mutant: the status of the error is passed on as it is
ErrorStatusUnchecked(err) == IF err.status # 0 THEN err.status ELSE 500

\* geminiError?.status || 500, then the 400..599 window
ErrorStatus(err) ==
    LET errorStatus == IF err.status # 0 THEN err.status ELSE 500
    IN  IF errorStatus >= 400 /\ errorStatus < 600 THEN errorStatus ELSE 500

\* mutant: the helpful message replaces the original error text
HelpfulMessageNoOriginal(errorMessage) ==
    IF IsNotFound(errorMessage)
    THEN <<"None of the available Gemini models worked with your API key.", "Tried models: ">>
         \o Join(ModelNamesToTry)
    ELSE errorMessage

HelpfulMessage(errorMessage) ==
    IF IsNotFound(errorMessage)
    THEN <<"None of the available Gemini models worked with your API key.", "Tried models: ">>
         \o Join(ModelNamesToTry) \o <<"Original error: ">> \o errorMessage
    ELSE errorMessage

\* the response of the catch block of the fallback loop
GeminiErrorResponse(e, err) ==
    ErrorResponse(ErrorStatus(err),
        <<"Gemini API error: ">> \o HelpfulMessage(MessageOr(err.message, "Gemini API error")),
        Details(e, err))

\* the response of the branch after the loop, if (!response)
NoModelResponse(err) ==
    ErrorResponse(500,
        <<"Failed to get response from any Gemini model.", "Tried all models: ">>
        \o Join(ModelNamesToTry) \o <<"Last error: ">> \o MessageOr(err.message, "Unknown error"),
        "absent")

\* the outer catch of the handler
UnexpectedErrorResponse(e, err) ==
    ErrorResponse(500, MessageOr(err.message, "An unexpected error occurred"), Details(e, err))

EmptyContentError == [message |-> <<"No response from AI">>, status |-> 0, stack |-> TRUE]

\* mutant: an empty text goes on to recovery
FallbackFinishNoEmptyCheck(e, text) ==
    LET rec == Recover(text)
    IN  IF rec.threw THEN UnexpectedErrorResponse(e, rec.error)
        ELSE ResultResponse(rec.result)

\* from response.text() to the response of the handler
FallbackFinish(e, text) ==
    IF text = << >> THEN UnexpectedErrorResponse(e, EmptyContentError)
    ELSE LET rec == Recover(text)
         IN  IF rec.threw THEN UnexpectedErrorResponse(e, rec.error)
             ELSE ResultResponse(rec.result)

POST_Fallback(e, r) ==
    /\ pc = "idle"
    /\ UNCHANGED <<rvars, cvars, pvars>>
    /\ handler' = "fallback" /\ env' = e /\ request' = r
    /\ LET n == FallbackNormalize(e, r)
       IN  /\ decoded' = n.decoded /\ file' = n.file /\ code' = n.code
           /\ userPrompt' = n.userPrompt /\ parts' = n.parts
           /\ IF n.returned
              THEN /\ pc' = "done" /\ response' = n.response
                   /\ UNCHANGED <<calls, outstanding>>
              ELSE /\ pc' = "awaiting" /\ response' = NoResponse
                   /\ calls' = Append(calls, Call("gemini", ModelNamesToTry[1], n.parts))
                   /\ outstanding' = outstanding + 1
    /\ currentModelIndex' = 0 /\ attempt' = 0
    /\ UNCHANGED <<lastError, replies, content>>

\* model.generateContent(parts) resolved: break, read the text, recover
GenerateContentOk(text) ==
    /\ pc = "awaiting" /\ handler = "fallback"
    /\ UNCHANGED <<rvars, cvars, pvars>>
    /\ outstanding' = outstanding - 1
    /\ replies' = Append(replies, Resolved)
    /\ content' = text
    /\ pc' = "done"
    /\ response' = FallbackFinish(env, text)
    /\ UNCHANGED <<handler, env, request, decoded, file, code, userPrompt, parts,
                   currentModelIndex, attempt, lastError, calls>>

\* model.generateContent(parts) rejected: the catch block of the loop
GenerateContentFail(err) ==
    /\ pc = "awaiting" /\ handler = "fallback"
    /\ UNCHANGED <<rvars, cvars, pvars>>
    /\ replies' = Append(replies, Rejected(err))
    /\ lastError' = err
    /\ IF /\ IsNotFound(MessageOr(err.message, "Gemini API error"))
          /\ MoreModels(attempt)
       THEN /\ currentModelIndex' = NextModelIndex(currentModelIndex)
            /\ attempt' = attempt + 1
            /\ IF attempt + 1 < Len(ModelNamesToTry)
               THEN /\ calls' = Append(calls,
                          Call("gemini", ModelNamesToTry[NextModelIndex(currentModelIndex) + 1],
                               parts))
                    /\ outstanding' = outstanding
                    /\ UNCHANGED <<pc, response>>
               ELSE /\ pc' = "done" /\ response' = NoModelResponse(err)
                    /\ outstanding' = outstanding - 1
                    /\ UNCHANGED calls
       ELSE /\ pc' = "done" /\ response' = GeminiErrorResponse(env, err)
            /\ outstanding' = outstanding - 1
            /\ UNCHANGED <<currentModelIndex, attempt, calls>>
    /\ UNCHANGED <<handler, env, request, decoded, file, code, userPrompt, parts, content>>

(***************************************************************************)
(* The multi-provider handler                                              *)
(***************************************************************************)
\* getAIProvider: process.env.AI_PROVIDER || 'gemini'
Provider(e) == IF e.AI_PROVIDER # "" THEN e.AI_PROVIDER ELSE "gemini"

\* mutant: the groq branch does not look at its key
RouteGroqWithoutKey(e) ==
    IF Provider(e) = "gemini" /\ e.GEMINI_API_KEY THEN "gemini"
    ELSE IF Provider(e) = "ollama" THEN "ollama"
    ELSE IF Provider(e) = "groq" THEN "groq"
    ELSE "default"

\* the branch of "Route to appropriate AI provider"
Route(e) ==
    IF Provider(e) = "gemini" /\ e.GEMINI_API_KEY THEN "gemini"
    ELSE IF Provider(e) = "ollama" THEN "ollama"
    ELSE IF Provider(e) = "groq" /\ e.GROQ_API_KEY THEN "groq"
    ELSE "default"

\* userPrompt = the file instruction, then = the code instruction
MultiUserPrompt(f, c) ==
    IF CodeNonBlank(c) THEN AnalyzeInstruction(CodeContent(c))
    ELSE IF ~f.present THEN << >>
    ELSE IF IsImage(FileType(f)) THEN ImageInstruction
    ELSE AnalyzeInstruction(TextContent(f))

\* the image, then the text prompt if (userPrompt)
MultiParts(f, c) ==
    (IF f.present /\ IsImage(FileType(f)) THEN <<InlinePart(f)>> ELSE << >>)
    \o (IF MultiUserPrompt(f, c) # << >>
        THEN <<TextPart(<<SystemPromptMulti>> \o MultiUserPrompt(f, c))>> ELSE << >>)

MultiNormalize(e, r) ==
    IF ~r.formOk THEN Return(Locals0, FormDataError)
    ELSE LET d == [Locals0 EXCEPT !.decoded = TRUE, !.file = r.file, !.code = r.code]
         IN  IF ~r.file.present /\ CodeFalsy(r.code) THEN Return(d, NoInputError)
             ELSE IF r.file.present /\ TooLarge(r.file)
             THEN Return(d, TooLargeError(MaxSize(FileType(r.file))))
             ELSE [d EXCEPT !.userPrompt = MultiUserPrompt(r.file, r.code),
                            !.parts = MultiParts(r.file, r.code)]

\* what each branch sends to its backend
MultiCall(route, n) ==
    CASE route = "ollama" ->
            Call("ollama", "llama3.2:3b", <<TextPart(<<SystemPromptMulti>> \o n.userPrompt)>>)
      [] route = "groq" ->
            Call("groq", "llama-3.1-8b-instant",
                 <<TextPart(<<SystemPromptMulti>>), TextPart(n.userPrompt)>>)
      [] OTHER -> Call("gemini", "gemini-2.5-flash", n.parts)

SetupInstructions == "Setup Instructions: ..."

\* the catch (aiError) block
AIProviderErrorResponse(err) ==
    ErrorResponse(500,
        <<"AI Provider Error: ">> \o MessageOr(err.message, "Unknown error")
            \o <<SetupInstructions>>,
        "absent")

NoProviderError ==
    [message |-> <<"No AI provider configured. Please set GEMINI_API_KEY or choose another provider.">>,
     status |-> 0, stack |-> TRUE]

StatusText == "Service Unavailable"

\* the Error each branch raises for a failed backend call: a rejected
\* promise passes through, an HTTP error reply is wrapped
ThrownError(provider, err, http) ==
    IF ~http THEN err
    ELSE IF provider = "ollama"
    THEN [message |-> <<"Ollama API error: ", StatusText, ". Make sure Ollama is running">>,
          status |-> 0, stack |-> TRUE]
    ELSE [message |-> <<"Groq API error: ">> \o MessageOr(err.message, StatusText),
          status |-> 0, stack |-> TRUE]

\* from content to the response of the handler
MultiFinish(text) ==
    IF text = << >> THEN AIProviderErrorResponse(EmptyContentError)
    ELSE LET rec == Recover(text)
         IN  IF rec.threw THEN AIProviderErrorResponse(rec.error)
             ELSE ResultResponse(rec.result)

POST_Multi(e, r) ==
    /\ pc = "idle"
    /\ UNCHANGED <<rvars, cvars, pvars>>
    /\ handler' = "multi" /\ env' = e /\ request' = r
    /\ LET n == MultiNormalize(e, r)
       IN  /\ decoded' = n.decoded /\ file' = n.file /\ code' = n.code
           /\ userPrompt' = n.userPrompt /\ parts' = n.parts
           /\ IF n.returned
              THEN /\ pc' = "done" /\ response' = n.response
                   /\ UNCHANGED <<calls, outstanding, lastError>>
              ELSE IF Route(e) = "default" /\ ~e.GEMINI_API_KEY
              THEN /\ pc' = "done" /\ response' = AIProviderErrorResponse(NoProviderError)
                   /\ lastError' = NoProviderError
                   /\ UNCHANGED <<calls, outstanding>>
              ELSE /\ pc' = "awaiting" /\ response' = NoResponse
                   /\ calls' = Append(calls, MultiCall(Route(e), n))
                   /\ outstanding' = outstanding + 1
                   /\ UNCHANGED lastError
    /\ UNCHANGED <<currentModelIndex, attempt, replies, content>>

\* the backend answered: content is the text of the reply
ProviderReplyOk(text) ==
    /\ pc = "awaiting" /\ handler = "multi"
    /\ UNCHANGED <<rvars, cvars, pvars>>
    /\ outstanding' = outstanding - 1
    /\ replies' = Append(replies, Resolved)
    /\ content' = text
    /\ pc' = "done"
    /\ response' = MultiFinish(text)
    /\ UNCHANGED <<handler, env, request, decoded, file, code, userPrompt, parts,
                   currentModelIndex, attempt, lastError, calls>>

\* the backend call failed: a rejected promise, or an HTTP error reply
\* (ollama and groq, which are called with fetch)
ProviderReplyFail(err, http) ==
    /\ pc = "awaiting" /\ handler = "multi"
    /\ UNCHANGED <<rvars, cvars, pvars>>
    /\ http => calls[Len(calls)].provider \in {"ollama", "groq"}
    /\ outstanding' = outstanding - 1
    /\ replies' = Append(replies, Rejected(err))
    /\ lastError' = ThrownError(calls[Len(calls)].provider, err, http)
    /\ pc' = "done"
    /\ response' = AIProviderErrorResponse(ThrownError(calls[Len(calls)].provider, err, http))
    /\ UNCHANGED <<handler, env, request, decoded, file, code, userPrompt, parts,
                   currentModelIndex, attempt, calls, content>>

(***************************************************************************)
(* The page component: state hooks, event handlers, the debug button       *)
(***************************************************************************)
\* useState<DebugResult | null>(null) and useState<string | null>(null)
NoResult == [present |-> FALSE, data |-> EmptyObject]

NoMessage == [present |-> FALSE, message |-> << >>]

SomeResult(data) == [present |-> TRUE, data |-> data]

SomeMessage(message) == [present |-> TRUE, message |-> message]

\* the state hooks after the first render; fetches holds the bodies of the
\* requests that were sent and have not settled
PageIdle ==
    [code |-> << >>, file |-> NoFile, loading |-> FALSE, result |-> NoResult,
     error |-> NoMessage, isDragging |-> FALSE, fetches |-> << >>]

\* what the textarea may hold
PageCodes == SeqsUpTo({" ", "x"}, MaxCodeLen)

\* e.target.files and e.dataTransfer.files: no file, or the files chosen
FileLists == {<< >>} \cup {<<f>> : f \in {g \in Files : g.size = TextLimit}}

\* mutant: the button is disabled only when there is nothing to send
DisabledWhenEmptyOnly(p) == Trim(p.code) = << >> /\ ~p.file.present

\* disabled={loading || (!code.trim() && !file)}
Disabled(p) == p.loading \/ (Trim(p.code) = << >> /\ ~p.file.present)

\* the FormData of a request: the file when there is one, the code when it
\* is not blank
FormData(p) ==
    [file |-> p.file,
     code |-> IF Trim(p.code) # << >> THEN [present |-> TRUE, text |-> p.code]
              ELSE NoCode]

\* what fetch settles with: a response with a JSON body, a response with
\* another body, a response whose JSON body does not parse, a rejection
JsonReply(resp) ==
    [rejected |-> FALSE, json |-> TRUE, parses |-> TRUE, status |-> resp.status,
     body |-> resp]

TextReply(status) ==
    [rejected |-> FALSE, json |-> FALSE, parses |-> FALSE, status |-> status,
     body |-> NoResponse]

BrokenJsonReply(status) ==
    [rejected |-> FALSE, json |-> TRUE, parses |-> FALSE, status |-> status,
     body |-> NoResponse]

NetworkFailure ==
    [rejected |-> TRUE, json |-> FALSE, parses |-> FALSE, status |-> 0,
     body |-> NoResponse]

FetchReplies ==
    {JsonReply(ResultResponse(DebugResult(o))) : o \in ObjectPool} \cup
    {JsonReply(NoInputError), JsonReply(ErrorResponse(500, << >>, "absent")),
     TextReply(504), TextReply(200), BrokenJsonReply(200), NetworkFailure}

\* response.ok
Ok(reply) == reply.status \in 200..299

Thrown(message) == [thrown |-> TRUE, data |-> EmptyObject, message |-> message]

Returned(data) == [thrown |-> FALSE, data |-> data, message |-> << >>]

\* the try block after the fetch: the data it reaches setResult with, or the
\* message of the Error it throws
TryOutcome(reply) ==
    IF reply.rejected THEN Thrown(<<"Failed to fetch">>)
    ELSE IF ~Ok(reply)
    THEN IF reply.json
         THEN IF reply.parses
              THEN Thrown(MessageOr(reply.body.error, "Failed to debug code"))
              ELSE Thrown(<<"Unexpected token < in JSON">>)
         ELSE Thrown(<<"Server error (">> \o Digits(reply.status) \o <<"): ", "<html>">>)
    ELSE IF ~reply.json THEN Thrown(<<"Server returned non-JSON response">>)
    ELSE IF ~reply.parses THEN Thrown(<<"Unexpected token < in JSON">>)
    ELSE Returned(reply.body.result)

\* mutant: the previous result is kept when a request is sent
BeforeFetchKeepResult(p) ==
    [p EXCEPT !.loading = TRUE, !.error = NoMessage,
              !.fetches = Append(p.fetches, FormData(p))]

\* setLoading(true); setError(null); setResult(null); the request is sent
BeforeFetch(p) ==
    [p EXCEPT !.loading = TRUE, !.error = NoMessage, !.result = NoResult,
              !.fetches = Append(p.fetches, FormData(p))]

\* setResult(data), or the catch block's setError; finally setLoading(false)
AfterFetch(p, outcome) ==
    IF outcome.thrown
    THEN [p EXCEPT !.error = SomeMessage(outcome.message), !.loading = FALSE]
    ELSE [p EXCEPT !.result = SomeResult(outcome.data), !.loading = FALSE]

\* the textarea's onChange
setCode(c) ==
    /\ page' = [page EXCEPT !.code = c]
    /\ UNCHANGED <<hvars, rvars, cvars>>

handleFileChange(files) ==
    /\ page' = IF files # << >>
               THEN [page EXCEPT !.file = files[1], !.error = NoMessage]
               ELSE page
    /\ UNCHANGED <<hvars, rvars, cvars>>

handleDragOver ==
    /\ page' = [page EXCEPT !.isDragging = TRUE]
    /\ UNCHANGED <<hvars, rvars, cvars>>

handleDragLeave ==
    /\ page' = [page EXCEPT !.isDragging = FALSE]
    /\ UNCHANGED <<hvars, rvars, cvars>>

handleDrop(files) ==
    /\ page' = IF files # << >>
               THEN [page EXCEPT !.isDragging = FALSE, !.file = files[1],
                                 !.error = NoMessage]
               ELSE [page EXCEPT !.isDragging = FALSE]
    /\ UNCHANGED <<hvars, rvars, cvars>>

\* a click on the button, which a disabled button does not deliver: the
\* handler up to its await
handleDebug ==
    /\ ~Disabled(page)
    /\ page' = IF Trim(page.code) = << >> /\ ~page.file.present
               THEN [page EXCEPT
                        !.error = SomeMessage(<<"Please provide code or upload a file">>)]
               ELSE BeforeFetch(page)
    /\ UNCHANGED <<hvars, rvars, cvars>>

\* the fetch of a request in flight settles with reply: the handler from its
\* await to its end
handleDebugResume(i, reply) ==
    /\ i \in DOMAIN page.fetches
    /\ page' = [AfterFetch(page, TryOutcome(reply)) EXCEPT
                   !.fetches = SubSeq(page.fetches, 1, i - 1)
                               \o SubSeq(page.fetches, i + 1, Len(page.fetches))]
    /\ UNCHANGED <<hvars, rvars, cvars>>

(***************************************************************************)
(* The specification                                                       *)
(***************************************************************************)
HandlerIdle ==
    /\ handler = "none"
    /\ env = [AI_PROVIDER |-> "", GEMINI_API_KEY |-> FALSE, ALT_KEY |-> FALSE,
              GROQ_API_KEY |-> FALSE, NODE_ENV |-> "production"]
    /\ request = [formOk |-> FALSE, file |-> NoFile, code |-> NoCode]
    /\ pc = "idle"
    /\ decoded = FALSE
    /\ file = NoFile
    /\ code = NoCode
    /\ userPrompt = << >>
    /\ parts = << >>
    /\ currentModelIndex = 0
    /\ attempt = 0
    /\ lastError = NoError
    /\ calls = << >>
    /\ replies = << >>
    /\ outstanding = 0
    /\ content = << >>
    /\ response = NoResponse

\* result recovery has not been applied
NotRecovered == [applied |-> FALSE, threw |-> FALSE, result |-> EmptyObject]

Init ==
    /\ HandlerIdle
    /\ rawText = << >>
    /\ recovered = NotRecovered
    /\ inflight = << >>
    /\ page = PageIdle

Next ==
    \/ \E e \in EnvsFallback, r \in Requests : POST_Fallback(e, r)
    \/ \E text \in Contents : GenerateContentOk(text)
    \/ \E err \in BackendErrors : GenerateContentFail(err)
    \/ \E e \in EnvsMulti, r \in Requests : POST_Multi(e, r)
    \/ \E text \in Contents : ProviderReplyOk(text)
    \/ \E err \in BackendErrors, http \in BOOLEAN : ProviderReplyFail(err, http)

Spec == Init /\ [][Next]_vars

(***************************************************************************)
(* Result recovery on its own: the parse cascade and the field resolution  *)
(* applied to one raw text                                                 *)
(***************************************************************************)
MaxRawLen == 2

MaxBlocks == 2

\* objects with the three canonical keys, each "" or a non-empty string
CanonicalObjects ==
    { [errorExplanation |-> JStr(e), reasoning |-> JStr(r), fixedCode |-> JStr(f)] :
        e \in {"", "A"}, r \in {"", "B"}, f \in {"", "C"} }

\* objects under other keys, with empty or non-string values, or with none
OtherObjects ==
    { [explanation |-> JStr("X"), reason |-> JStr("Y"), code |-> JStr("Z")],
      [errorExplanation |-> JStr(""), explanation |-> JStr("X"),
       reasoning |-> JStr("B"), fixedCode |-> JStr("C")],
      [errorExplanation |-> JStr("A"), explanation |-> JStr("X"),
       reasoning |-> JStr("B"), reason |-> JStr("Y"),
       fixedCode |-> JStr("C"), code |-> JStr("Z")],
      [errorExplanation |-> JStr("A"), reasoning |-> JStr("B"),
       code |-> JStr(""), correctedCode |-> JStr("W")],
      [errorExplanation |-> JStr("A"), reasoning |-> JStr("B"), correctedCode |-> JStr("W")],
      [errorExplanation |-> JNum("42"), reasoning |-> JStr("B"), fixedCode |-> JStr("C")],
      [errorExplanation |-> JStr("A"), reasoning |-> JStr("B"), fixedCode |-> JStr("C"),
       confidence |-> JNum("1")],
      EmptyObject }

RecoveryObjects == CanonicalObjects \cup OtherObjects

\* JSON texts that are not objects: 42, "done", [1, 2], true, null
ScalarTokens == {Tok("num"), Tok("str"), Tok("arr"), Tok("true"), Tok("null")}

RawTokens == ScalarTokens \cup {Tok("prose"), Tok("ws"), Tok("fence"), Tok("fencejson"), Tok("bad")}

\* the objects of the longer replies: canonical keys, and alias keys
BlockObjects ==
    { [errorExplanation |-> JStr("A"), reasoning |-> JStr("B"), fixedCode |-> JStr("C")],
      [explanation |-> JStr("X"), reason |-> JStr("Y"), code |-> JStr("Z")] }

\* an object whose fixedCode string itself holds a fenced block: the pieces
\* of {"errorExplanation":"A","reasoning":"B","fixedCode":"```{ x }```"}
FencedCodeObject ==
    <<OpenTok([errorExplanation |-> JStr("A"), reasoning |-> JStr("B")]),
      Tok("fence"), Tok("bad"), Tok("fence"), Tok("close")>>

\* what a reply is made of: an object, a fenced block holding an object or
\* braces that are not JSON, braces alone, a stray fence
Blocks ==
    {<<ObjTok(o)>> : o \in BlockObjects}
    \cup {<<Tok("fencejson"), Tok("ws"), ObjTok(o), Tok("ws"), Tok("fence")>> : o \in BlockObjects}
    \cup {<<Tok("fence"), ObjTok(o), Tok("fence")>> : o \in BlockObjects}
    \cup {<<Tok("fence"), Tok("bad"), Tok("fence")>>, <<Tok("bad")>>, <<Tok("fence")>>,
          FencedCodeObject}

Fillers == {<< >>, <<Tok("prose")>>}

\* replies of at most n blocks, prose before, between and after them or not
RECURSIVE BlockTexts(_)
BlockTexts(n) ==
    IF n = 0 THEN Fillers
    ELSE BlockTexts(n - 1)
         \cup {t \o b \o f : t \in BlockTexts(n - 1), b \in Blocks, f \in Fillers}

\* the raw texts handed to recovery: content is never empty there
RawTexts ==
    (UNION {SeqsUpTo(RawTokens \cup {ObjTok(o)}, MaxRawLen) : o \in RecoveryObjects}
     \cup BlockTexts(MaxBlocks)) \ {<< >>}

RecoveryInit ==
    /\ HandlerIdle
    /\ rawText \in RawTexts
    /\ recovered = NotRecovered
    /\ inflight = << >>
    /\ page = PageIdle

\* "Parse JSON response" and "Ensure all required fields exist" on rawText
RecoverText ==
    /\ ~recovered.applied
    /\ recovered' = [applied |-> TRUE, threw |-> Recover(rawText).threw,
                     result |-> Recover(rawText).result]
    /\ UNCHANGED <<hvars, cvars, pvars, rawText>>

RecoveryNext == RecoverText

RecoverySpec == RecoveryInit /\ [][RecoveryNext]_vars

(***************************************************************************)
(* Concurrent requests: one invocation of the fallback handler per         *)
(* request, each with its own locals, their awaits interleaved             *)
(***************************************************************************)
MaxRequests == 2

RequestIds == 1..MaxRequests

\* the environment of the running server: the key is configured
ConcEnv ==
    [AI_PROVIDER |-> "", GEMINI_API_KEY |-> TRUE, ALT_KEY |-> FALSE,
     GROQ_API_KEY |-> FALSE, NODE_ENV |-> "production"]

\* a submission of code, of a text file, of an image, and an empty one
ConcRequests ==
    {[formOk |-> TRUE, file |-> NoFile, code |-> [present |-> TRUE, text |-> <<"x">>]],
     [formOk |-> TRUE, code |-> NoCode,
      file |-> [present |-> TRUE, type |-> <<"text/", "plain">>, size |-> TextLimit,
                bytes |-> "bytes"]],
     [formOk |-> TRUE, code |-> NoCode,
      file |-> [present |-> TRUE, type |-> <<"image/", "png">>, size |-> TextLimit,
                bytes |-> "bytes"]],
     [formOk |-> TRUE, file |-> NoFile, code |-> NoCode]}

ConcContents == {<<ObjTok(o)>> : o \in ObjectPool} \cup {<<Tok("prose")>>}

ConcErrors == {ErrModelNotFound, ErrQuota}

\* the locals of an invocation that has not started
IdleLocals ==
    [pc |-> "idle", request |-> [formOk |-> FALSE, file |-> NoFile, code |-> NoCode],
     parts |-> << >>, modelNamesToTry |-> << >>, currentModelIndex |-> 0, attempt |-> 0,
     calls |-> << >>, replies |-> << >>, response |-> NoResponse]

\* mutant: the index is kept at module level, shared by the invocations
InitialModelIndexShared ==
    SetMax({inflight[id].currentModelIndex : id \in DOMAIN inflight})

\* let currentModelIndex = 0
InitialModelIndex == 0

\* modelNamesToTry[i], undefined past the end
ModelNameAt(names, i) == IF i + 1 \in DOMAIN names THEN names[i + 1] ELSE "undefined"

ConcInit ==
    /\ HandlerIdle
    /\ rawText = << >>
    /\ recovered = NotRecovered
    /\ inflight = [id \in RequestIds |-> IdleLocals]
    /\ page = PageIdle

\* request id arrives: POST up to its first generateContent
ConcPOST(id, r) ==
    /\ inflight[id].pc = "idle"
    /\ LET n == FallbackNormalize(ConcEnv, r)
       IN  inflight' = [inflight EXCEPT ![id] =
              IF n.returned
              THEN [@ EXCEPT !.pc = "done", !.request = r, !.response = n.response]
              ELSE [@ EXCEPT !.pc = "awaiting", !.request = r, !.parts = n.parts,
                             !.modelNamesToTry = ModelNamesToTry,
                             !.currentModelIndex = InitialModelIndex,
                             !.calls = <<Call("gemini",
                                              ModelNameAt(ModelNamesToTry, InitialModelIndex),
                                              n.parts)>>]]
    /\ UNCHANGED <<hvars, rvars, pvars>>

\* the generateContent of request id resolved
ConcContentOk(id, text) ==
    /\ inflight[id].pc = "awaiting"
    /\ inflight' = [inflight EXCEPT ![id] =
          [@ EXCEPT !.pc = "done", !.replies = Append(@, Resolved),
                    !.response = FallbackFinish(ConcEnv, text)]]
    /\ UNCHANGED <<hvars, rvars, pvars>>

\* the generateContent of request id rejected: the catch block of its loop
ConcContentFail(id, err) ==
    /\ inflight[id].pc = "awaiting"
    /\ LET l == inflight[id]
           next == NextModelIndex(l.currentModelIndex)
       IN  inflight' = [inflight EXCEPT ![id] =
              IF /\ IsNotFound(MessageOr(err.message, "Gemini API error"))
                 /\ l.attempt < Len(l.modelNamesToTry) - 1
              THEN IF l.attempt + 1 < Len(l.modelNamesToTry)
                   THEN [@ EXCEPT !.replies = Append(@, Rejected(err)),
                                  !.currentModelIndex = next, !.attempt = @ + 1,
                                  !.calls = Append(@, Call("gemini",
                                                 ModelNameAt(l.modelNamesToTry, next),
                                                 l.parts))]
                   ELSE [@ EXCEPT !.replies = Append(@, Rejected(err)),
                                  !.currentModelIndex = next, !.attempt = @ + 1,
                                  !.pc = "done", !.response = NoModelResponse(err)]
              ELSE [@ EXCEPT !.replies = Append(@, Rejected(err)), !.pc = "done",
                             !.response = GeminiErrorResponse(ConcEnv, err)]]
    /\ UNCHANGED <<hvars, rvars, pvars>>

ConcNext ==
    \/ \E id \in RequestIds, r \in ConcRequests : ConcPOST(id, r)
    \/ \E id \in RequestIds, text \in ConcContents : ConcContentOk(id, text)
    \/ \E id \in RequestIds, err \in ConcErrors : ConcContentFail(id, err)

ConcSpec == ConcInit /\ [][ConcNext]_vars

(***************************************************************************)
(* One request to its end: the handlers under the assumption that every    *)
(* backend call comes back, resolved or rejected                           *)
(***************************************************************************)
\* the submissions of ConcRequests, an undecodable form, a blank code
LiveRequests ==
    ConcRequests
    \cup {[formOk |-> FALSE, file |-> NoFile, code |-> NoCode],
          [formOk |-> TRUE, file |-> NoFile, code |-> [present |-> TRUE, text |-> <<" ">>]]}

\* the replies of ConcContents, an empty text, braces that are not JSON
LiveContents == ConcContents \cup {<< >>, <<Tok("bad")>>}

LiveNext ==
    \/ \E e \in EnvsFallback, r \in LiveRequests : POST_Fallback(e, r)
    \/ \E text \in LiveContents : GenerateContentOk(text)
    \/ \E err \in BackendErrors : GenerateContentFail(err)
    \/ \E e \in EnvsMulti, r \in LiveRequests : POST_Multi(e, r)
    \/ \E text \in LiveContents : ProviderReplyOk(text)
    \/ \E err \in BackendErrors, http \in BOOLEAN : ProviderReplyFail(err, http)

FairSpec == Init /\ [][LiveNext]_vars /\ WF_vars(LiveNext)

(***************************************************************************)
(* The page component on its own: user events and settling fetches         *)
(***************************************************************************)
\* requests a page can have in flight in the model
MaxFetches == 2

PageInit ==
    /\ HandlerIdle
    /\ rawText = << >>
    /\ recovered = NotRecovered
    /\ inflight = << >>
    /\ page = PageIdle

PageNext ==
    \/ \E c \in PageCodes : setCode(c)
    \/ \E files \in FileLists : handleFileChange(files)
    \/ handleDragOver
    \/ handleDragLeave
    \/ \E files \in FileLists : handleDrop(files)
    \/ Len(page.fetches) < MaxFetches /\ handleDebug
    \/ \E i \in 1..MaxFetches, reply \in FetchReplies : handleDebugResume(i, reply)

PageSpec == PageInit /\ [][PageNext]_vars

(***************************************************************************)
(* Vocabulary of the properties                                            *)
(***************************************************************************)
\* the errors that say the requested model is unknown
NotFoundErrors == {ErrModelNotFound, Err404}

AllNotFound(rs) == \A i \in 1..Len(rs) : ~rs[i].ok /\ rs[i].err \in NotFoundErrors

CalledModels == [i \in 1..Len(calls) |-> calls[i].model]

LastReplyOk == Len(replies) > 0 /\ replies[Len(replies)].ok

DispatcherFailed == pc = "done" /\ Len(replies) > 0 /\ ~replies[Len(replies)].ok

DeclaredImage(f) == Len(f.type) > 0 /\ f.type[1] = "image/"

Blank(text) == \A i \in 1..Len(text) : text[i] = " "

RejectedForSize ==
    /\ pc = "done" /\ response.kind = "error" /\ response.status = 400
    /\ Len(response.error) > 0
    /\ response.error[1] = "File is too large. Maximum size: "

ScenarioObject ==
    [errorExplanation |-> JStr("x is undefined"),
     reasoning |-> JStr("x was never assigned"),
     fixedCode |-> JStr("x = 1\nprint(x)")]

(***************************************************************************)
(* C1  Model-fallback ordering.  In the fallback handler, while every      *)
(* reply so far is a "not found" error and candidates remain, the next     *)
(* candidate of the list has been called; and when the first k candidates  *)
(* (k < 3) failed with "not found" and candidate k+1 answered, exactly     *)
(* k+1 calls were made, in list order, and the result of the request is    *)
(* the one recovered from that answer.                                     *)
(***************************************************************************)
C1_FallbackOrdering ==
    handler = "fallback" =>
        /\ \A k \in 1..Len(replies) :
              (AllNotFound(SubSeq(replies, 1, k)) /\ k < Len(ModelNamesToTry)) =>
                  /\ Len(calls) >= k + 1
                  /\ SubSeq(CalledModels, 1, k + 1) = SubSeq(ModelNamesToTry, 1, k + 1)
        /\ \A k \in 0..(Len(ModelNamesToTry) - 1) :
              (/\ Len(replies) = k + 1
               /\ AllNotFound(SubSeq(replies, 1, k))
               /\ replies[k + 1].ok) =>
                  /\ pc = "done"
                  /\ Len(calls) = k + 1
                  /\ CalledModels = SubSeq(ModelNamesToTry, 1, k + 1)
                  /\ (~Recover(content).threw /\ content # << >>) =>
                        response = ResultResponse(Recover(content).result)

C1_Witness ==
    /\ handler = "fallback" /\ pc = "done"
    /\ Len(replies) = 3 /\ AllNotFound(SubSeq(replies, 1, 2)) /\ replies[3].ok
    /\ CalledModels = <<"gemini-1.5-flash", "gemini-1.5-pro", "gemini-pro">>
    /\ content = <<ObjTok(ScenarioObject)>>
    /\ response.kind = "result" /\ response.result = ScenarioObject

(***************************************************************************)
(* C2  Model-fallback stop condition.  A reply that is an error other than *)
(* "not found"/404 is the last reply of the request: no further backend    *)
(* call is made and the request has failed; when it is the first reply,    *)
(* exactly one call was made.                                              *)
(***************************************************************************)
C2_StopOnOtherError ==
    \A i \in 1..Len(replies) :
        (~replies[i].ok /\ replies[i].err \notin NotFoundErrors) =>
            /\ i = Len(replies)
            /\ Len(calls) = i
            /\ pc = "done"
            /\ response.kind = "error"

C2_Witness ==
    /\ handler = "fallback" /\ pc = "done"
    /\ replies = <<Rejected(ErrQuota)>>
    /\ Len(calls) = 1
    /\ response.kind = "error"

(***************************************************************************)
(* C3  Result Recovery never fails.  Whenever the backend answered with a  *)
(* non-empty text, the request ends with a DebugResult and not with an     *)
(* error response.                                                         *)
(***************************************************************************)
C3_RecoveryNeverFails ==
    (pc = "done" /\ LastReplyOk /\ content # << >>) => response.kind = "result"

(***************************************************************************)
(* C4  For every decoded request with neither rawCode nor artifact set,    *)
(* the result is the input-validation rejection and no backend call is     *)
(* made.                                                                   *)
(***************************************************************************)
C4_NoInputRejected ==
    (decoded /\ ~file.present /\ ~code.present) =>
        /\ pc = "done"
        /\ response = NoInputError
        /\ response.status = 400
        /\ Len(calls) = 0

C4_Witness ==
    /\ decoded /\ ~request.file.present /\ ~request.code.present
    /\ pc = "done" /\ response.status = 400 /\ Len(calls) = 0
    /\ response.error = <<"Please provide either code or a file">>

(***************************************************************************)
(* C5  A decoded request with no artifact whose rawCode is present but     *)
(* blank is rejected with the input-validation error and no backend call   *)
(* is made.                                                                *)
(***************************************************************************)
C5_BlankCodeRejected ==
    (decoded /\ ~file.present /\ code.present /\ Blank(code.text)) =>
        /\ pc = "done"
        /\ response = NoInputError
        /\ Len(calls) = 0

(***************************************************************************)
(* C6  Every decoded text-like artifact larger than 1 MiB is rejected with *)
(* a message containing "1MB", every image artifact larger than 10 MiB     *)
(* with a message containing "10MB", and no backend call is made.          *)
(***************************************************************************)
C6_OversizeRejected ==
    /\ (decoded /\ file.present /\ ~DeclaredImage(file) /\ file.size > 1048576) =>
          /\ pc = "done" /\ response.kind = "error" /\ response.status = 400
          /\ ContainsSeq(response.error, <<"1", "MB">>)
          /\ Len(calls) = 0
    /\ (decoded /\ file.present /\ DeclaredImage(file) /\ file.size > 10485760) =>
          /\ pc = "done" /\ response.kind = "error" /\ response.status = 400
          /\ ContainsSeq(response.error, <<"1", "0", "MB">>)
          /\ Len(calls) = 0

C6_Witness ==
    /\ decoded /\ file.present /\ file.type = <<"text/", "plain">>
    /\ file.size = 1048577
    /\ pc = "done" /\ response.status = 400
    /\ response.error = <<"File is too large. Maximum size: ", "1", "MB">>
    /\ Len(calls) = 0

(***************************************************************************)
(* C7  The size ceiling depends on the declared media type alone and is    *)
(* inclusive: a decoded artifact is rejected for size exactly when its     *)
(* byte length is greater than 10*1024*1024 for a type beginning with      *)
(* "image/", greater than 1024*1024 for any other type, the empty type     *)
(* included.                                                               *)
(***************************************************************************)
C7_SizeCeiling ==
    (decoded /\ file.present) =>
        (RejectedForSize <=>
            file.size > (IF DeclaredImage(file) THEN 10 * 1024 * 1024 ELSE 1024 * 1024))

C7_Witness ==
    /\ decoded /\ file.present /\ file.type = << >>
    /\ file.size = 1024 * 1024
    /\ ~RejectedForSize
    /\ Len(calls) = 1

C10_EmptyResponseFails ==
    (LastReplyOk /\ content = << >>) =>
        /\ pc = "done"
        /\ response.kind = "error"
        /\ response.result = EmptyObject
        /\ Len(calls) = Len(replies)

C10_Witness ==
    /\ handler = "fallback" /\ pc = "done"
    /\ Len(replies) = 2 /\ replies[2].ok /\ content = << >>
    /\ Len(calls) = 2
    /\ response.kind = "error" /\ response.error = <<"No response from AI">>

(***************************************************************************)
(* Vocabulary of the recovery properties                                   *)
(***************************************************************************)
CanonicalKeys == {"errorExplanation", "reasoning", "fixedCode"}

\* the whole text is one JSON object
WholeObject(text) == Len(StripWs(text)) = 1 /\ StripWs(text)[1].t = "obj"

ObjectOf(text) == StripWs(text)[1].o

HasCanonicalStrings(o) == \A k \in CanonicalKeys : k \in DOMAIN o /\ o[k].t = "string"

\* the value under the first key of keys that o has, else the placeholder
FirstPresent(o, keys, placeholder) ==
    LET P == {i \in 1..Len(keys) : keys[i] \in DOMAIN o}
    IN  IF P = {} THEN JStr(placeholder) ELSE o[keys[SetMin(P)]]

\* the whole text is one JSON value that is not an object
WholeScalar(text) == Len(StripWs(text)) = 1 /\ StripWs(text)[1] \in ScalarTokens

(***************************************************************************)
(* C11  Round trip.  For a raw text that is a JSON object holding the      *)
(* three canonical keys with string values (empty strings included, alias  *)
(* keys or not), recovery returns exactly those three values.              *)
(***************************************************************************)
C11_RoundTrip ==
    (recovered.applied /\ WholeObject(rawText) /\ HasCanonicalStrings(ObjectOf(rawText))) =>
        /\ ~recovered.threw
        /\ \A k \in CanonicalKeys : recovered.result[k] = ObjectOf(rawText)[k]

(***************************************************************************)
(* C12  Aliasing.  Each field of the result is the value under the first   *)
(* key that the candidate object has, in the order (errorExplanation,      *)
(* explanation), (reasoning, reason), (fixedCode, code, correctedCode),    *)
(* else the fixed placeholder.                                             *)
(***************************************************************************)
C12_FirstPresentKey ==
    (recovered.applied /\ WholeObject(rawText)) =>
        /\ ~recovered.threw
        /\ recovered.result.errorExplanation =
              FirstPresent(ObjectOf(rawText), <<"errorExplanation", "explanation">>,
                           "No error explanation provided")
        /\ recovered.result.reasoning =
              FirstPresent(ObjectOf(rawText), <<"reasoning", "reason">>,
                           "No reasoning provided")
        /\ recovered.result.fixedCode =
              FirstPresent(ObjectOf(rawText), <<"fixedCode", "code", "correctedCode">>,
                           "No fixed code provided")

(***************************************************************************)
(* C13  A raw text that is valid JSON but not an object (a string, number, *)
(* boolean, array or null) is not taken as the candidate: with no object   *)
(* to be found in it, the result is the synthesized one, whose             *)
(* errorExplanation is the entire raw text.                                *)
(***************************************************************************)
C13_NonObjectFallsBack ==
    (recovered.applied /\ WholeScalar(rawText)) =>
        /\ ~recovered.threw
        /\ recovered.result =
              [errorExplanation |-> RawStr(rawText),
               reasoning |-> JStr("AI analysis completed"),
               fixedCode |-> JStr("See explanation above")]

(***************************************************************************)
(* C14  Shape of the DebugResult.  Every result recovery returns has       *)
(* exactly the fields errorExplanation, reasoning and fixedCode, each a    *)
(* string, whatever object the backend returned.                           *)
(***************************************************************************)
C14_ResultShape ==
    (recovered.applied /\ ~recovered.threw) =>
        /\ DOMAIN recovered.result = CanonicalKeys
        /\ \A k \in CanonicalKeys : recovered.result[k].t = "string"

(***************************************************************************)
(* Vocabulary of the dispatch properties                                   *)
(***************************************************************************)
\* the selected provider needs a key and that key is not set
SelectedKeyMissing ==
    \/ handler = "fallback" /\ ~env.GEMINI_API_KEY /\ ~env.ALT_KEY
    \/ handler = "multi" /\ env.AI_PROVIDER \in {"", "gemini"} /\ ~env.GEMINI_API_KEY
    \/ handler = "multi" /\ env.AI_PROVIDER = "groq" /\ ~env.GROQ_API_KEY

\* the request passed input validation
InputAccepted ==
    /\ decoded
    /\ file.present \/ (code.present /\ code.text # << >>)
    /\ file.present => file.size <= (IF DeclaredImage(file) THEN 10485760 ELSE 1048576)

\* a text segment of the call holds the piece
SentHas(call, piece) ==
    \E j \in 1..Len(call.sent) :
        call.sent[j].kind = "text" /\ Includes(call.sent[j].text, piece)

BinarySegments(call) == {j \in 1..Len(call.sent) : call.sent[j].kind = "inlineData"}

SystemInstruction == IF handler = "fallback" THEN SystemPromptFallback ELSE SystemPromptMulti

(***************************************************************************)
(* C15  Missing credential.  When the selected provider needs a key        *)
(* (gemini, groq) and that key is not set, no backend is called, whichever *)
(* it is, and a request that passed input validation ends with a           *)
(* configuration error.                                                    *)
(***************************************************************************)
C15_MissingCredential ==
    (pc # "idle" /\ SelectedKeyMissing) =>
        /\ Len(calls) = 0
        /\ pc = "done" /\ response.kind = "error"
        /\ (handler = "multi" /\ InputAccepted) => response.status = 500

(***************************************************************************)
(* C16  A request with a non-blank rawCode and a text-like artifact sends  *)
(* both the decoded artifact and the rawCode to the backend.               *)
(***************************************************************************)
C16_BothInPrompt ==
    \A i \in 1..Len(calls) :
        (file.present /\ ~DeclaredImage(file) /\ code.present /\ ~Blank(code.text)) =>
            /\ SentHas(calls[i], TextContent(file))
            /\ SentHas(calls[i], CodeContent(code))

(***************************************************************************)
(* C17  Whichever provider of the multi-provider handler is called, an     *)
(* image artifact is part of what is sent to it.                           *)
(***************************************************************************)
C17_ImageSent ==
    \A i \in 1..Len(calls) :
        (handler = "multi" /\ file.present /\ DeclaredImage(file)) =>
            \E j \in 1..Len(calls[i].sent) : calls[i].sent[j] = InlinePart(file)

(***************************************************************************)
(* C18  Structure of the bundle.  Every backend call is sent at most one   *)
(* binary segment, one exactly when the artifact is an image; its last     *)
(* segment is a text segment; the fixed system instruction is in the text  *)
(* sent; so it is never empty.                                             *)
(***************************************************************************)
C18_BundleStructure ==
    \A i \in 1..Len(calls) :
        /\ Cardinality(BinarySegments(calls[i])) <= 1
        /\ (BinarySegments(calls[i]) # {}) <=> (file.present /\ DeclaredImage(file))
        /\ Len(calls[i].sent) > 0
        /\ calls[i].sent[Len(calls[i].sent)].kind = "text"
        /\ SentHas(calls[i], SystemInstruction)

(***************************************************************************)
(* C19  No retry above the fallback loop.  Whatever the backends answer, a *)
(* request makes at most as many backend calls as its provider has model   *)
(* candidates, 3 in the fallback handler and 1 in the multi-provider       *)
(* handler, and calls no candidate twice.                                  *)
(***************************************************************************)
C19_NoRetry ==
    /\ handler = "fallback" => Len(calls) <= 3
    /\ handler = "multi" => Len(calls) <= 1
    /\ \A i, j \in 1..Len(calls) : i # j => calls[i].model # calls[j].model
    /\ Len(replies) <= Len(calls)

C19_Witness ==
    /\ handler = "fallback" /\ pc = "done"
    /\ Len(replies) = 3 /\ AllNotFound(replies)
    /\ Len(calls) = 3
    /\ response.kind = "error"

(***************************************************************************)
(* Vocabulary of the concurrency property                                  *)
(***************************************************************************)
Candidates == <<"gemini-1.5-flash", "gemini-1.5-pro", "gemini-pro">>

\* how many replies of the request sent it on to the next candidate
FallbacksOf(l) ==
    Cardinality({k \in 1..Len(l.replies) : k < Len(l.calls)})

\* the call carries the request's own submission and nothing else
OwnPrompt(l, call) ==
    /\ SentHas(call, CodeContent(l.request.code)) <=> l.request.code.present
    /\ SentHas(call, TextContent(l.request.file)) <=>
          (l.request.file.present /\ ~DeclaredImage(l.request.file))
    /\ (BinarySegments(call) # {}) <=>
          (l.request.file.present /\ DeclaredImage(l.request.file))

(***************************************************************************)
(* C20  Requests are independent.  With requests in flight together or one *)
(* after another, every request makes its first call to the first          *)
(* candidate, its k-th call to the k-th candidate, its fallback position   *)
(* is the number of its own fallbacks, every call carries its own          *)
(* submission only, and the candidate list it reads is the fixed one.      *)
(***************************************************************************)
C20_RequestsIndependent ==
    \A id \in DOMAIN inflight :
        LET l == inflight[id]
        IN  /\ Len(l.calls) > 0 =>
                  /\ l.calls[1].model = "gemini-1.5-flash"
                  /\ l.modelNamesToTry = Candidates
            /\ \A k \in 1..Len(l.calls) :
                  /\ k <= Len(Candidates) /\ l.calls[k].model = Candidates[k]
                  /\ OwnPrompt(l, l.calls[k])
            /\ l.currentModelIndex = FallbacksOf(l)

C20_Witness ==
    /\ DOMAIN inflight = RequestIds
    /\ inflight[1].pc = "done" /\ Len(inflight[1].calls) = 3
    /\ inflight[1].currentModelIndex = 2
    /\ inflight[1].request.code.present
    /\ inflight[2].pc = "awaiting" /\ Len(inflight[2].calls) = 2
    /\ inflight[2].currentModelIndex = 1
    /\ inflight[2].request.file.present /\ ~inflight[2].request.code.present
    /\ inflight[2].calls[2].model = "gemini-1.5-pro"

(***************************************************************************)
(* Vocabulary of the cascade properties                                    *)
(***************************************************************************)
\* the fields of the result as section 4.4 resolves them from an object
ResolvedFrom(o) ==
    [errorExplanation |->
        FirstPresent(o, <<"errorExplanation", "explanation">>, "No error explanation provided"),
     reasoning |-> FirstPresent(o, <<"reasoning", "reason">>, "No reasoning provided"),
     fixedCode |->
        FirstPresent(o, <<"fixedCode", "code", "correctedCode">>, "No fixed code provided")]

IsObjectText(text) == JSONParse(text).ok /\ JSONParse(text).t = "object"

FencePositions(text) == {i \in 1..Len(text) : IsFence(text[i])}

\* fence i opens a block and fence k closes it: an even number of fences
\* comes before i and none lies between the two
FencedBlock(text, i, k) ==
    /\ i \in FencePositions(text) /\ k \in FencePositions(text) /\ i < k
    /\ Cardinality({m \in FencePositions(text) : m < i}) % 2 = 0
    /\ \A m \in FencePositions(text) : ~(i < m /\ m < k)

\* the objects held by the fenced blocks of the text
FencedObjects(text) ==
    {JSONParse(SubSeq(text, i + 1, k - 1)).o :
        <<i, k>> \in {p \in (1..Len(text)) \X (1..Len(text)) :
                        /\ FencedBlock(text, p[1], p[2])
                        /\ IsObjectText(SubSeq(text, p[1] + 1, p[2] - 1))}}

(***************************************************************************)
(* C21  Fenced fallback.  When the raw text is not itself valid JSON but   *)
(* holds a fenced code block whose content is a JSON object, the result is *)
(* resolved from that object; prose followed by a json fence holding       *)
(* {errorExplanation:"A", reasoning:"B", fixedCode:"C"} yields A, B, C.    *)
(***************************************************************************)
C21_FencedObjectUsed ==
    (recovered.applied /\ ~JSONParse(rawText).ok /\ FencedObjects(rawText) # {}) =>
        /\ ~recovered.threw
        /\ \E o \in FencedObjects(rawText) : recovered.result = ResolvedFrom(o)

\* the text from the first "{" to the last "}", empty if there is none
BraceSpan(text) == MatchBraces(text).group

(***************************************************************************)
(* C22  Brace span, third in order.  When the whole text does not parse    *)
(* and no fenced block yields an object (there is none, or its content     *)
(* does not parse), the text from the first "{" to the last "}" is tried,  *)
(* and the result is resolved from it if it parses as an object.           *)
(***************************************************************************)
C22_BraceSpanUsed ==
    (/\ recovered.applied
     /\ ~JSONParse(rawText).ok
     /\ FencedObjects(rawText) = {}
     /\ IsObjectText(BraceSpan(rawText))) =>
        /\ ~recovered.threw
        /\ recovered.result = ResolvedFrom(JSONParse(BraceSpan(rawText)).o)

\* none of the three steps of section 4.4 finds a JSON object in the text
NoObjectRecoverable(text) ==
    /\ ~IsObjectText(text)
    /\ FencedObjects(text) = {}
    /\ ~IsObjectText(BraceSpan(text))

(***************************************************************************)
(* C23  Total fallback.  For a raw text from which no JSON object can be   *)
(* recovered the result is the synthesized one: errorExplanation is the    *)
(* entire raw text, reasoning "AI analysis completed", fixedCode "See      *)
(* explanation above".                                                     *)
(***************************************************************************)
C23_TotalFallback ==
    (recovered.applied /\ NoObjectRecoverable(rawText)) =>
        /\ ~recovered.threw
        /\ recovered.result =
              [errorExplanation |-> RawStr(rawText),
               reasoning |-> JStr("AI analysis completed"),
               fixedCode |-> JStr("See explanation above")]

(***************************************************************************)
(* C25  Every failure response has an error text, and carries a stack      *)
(* trace only when the process runs in development mode: in any other mode *)
(* no failure response of either handler carries one.                      *)
(***************************************************************************)
C25_StackOnlyInDevelopment ==
    response.kind = "error" =>
        /\ Len(response.error) > 0
        /\ response.details # "absent" => env.NODE_ENV = "development"

C25_Witness ==
    /\ pc = "done" /\ response.kind = "error"
    /\ env.NODE_ENV = "production"
    /\ Len(replies) > 0 /\ ~replies[Len(replies)].ok /\ replies[Len(replies)].err.stack
    /\ response.details = "absent"

(***************************************************************************)
(* C26  Default provider.  With AI_PROVIDER not set, the provider the      *)
(* multi-provider handler calls is ollama, and it is called with no API    *)
(* key configured.                                                         *)
(***************************************************************************)
C26_DefaultIsOllama ==
    (handler = "multi" /\ env.AI_PROVIDER = "" /\ InputAccepted) =>
        /\ Len(calls) = 1
        /\ calls[1].provider = "ollama"

(***************************************************************************)
(* C27  Image analysis uses Gemini 1.5 Pro.  When the artifact is an       *)
(* image, the model called for the request is gemini-1.5-pro.              *)
(***************************************************************************)
C27_ImageUsesPro ==
    (file.present /\ DeclaredImage(file)) =>
        \A i \in 1..Len(calls) :
            calls[i].provider = "gemini" => calls[i].model = "gemini-1.5-pro"

(***************************************************************************)
(* C28  Every request ends with exactly one response.  The fallback loop   *)
(* makes at most three passes; a finished request has either a DebugResult *)
(* or an error object, never both, and an unfinished one has neither; the  *)
(* branch after the loop, "Failed to get response from any Gemini model",  *)
(* is never taken; and every request does finish.                          *)
(***************************************************************************)
OneResponse ==
    /\ Len(replies) <= 3 /\ attempt <= 2
    /\ pc = "done" <=> response.kind \in {"result", "error"}
    /\ pc # "done" => response = NoResponse
    /\ response.kind = "result" =>
          response.error = << >> /\ DOMAIN response.result = CanonicalKeys
    /\ response.kind = "error" =>
          /\ response.error # << >> /\ response.result = EmptyObject
          /\ response.error[1] # "Failed to get response from any Gemini model."
    /\ pc = "awaiting" <=> outstanding = 1
    /\ pc # "awaiting" => outstanding = 0

C28_OneResponse == []OneResponse /\ <>(pc = "done")

C28_Witness ==
    /\ handler = "fallback" /\ pc = "done"
    /\ Len(replies) = 3 /\ AllNotFound(replies)
    /\ attempt = 2
    /\ response.kind = "error" /\ response.error[1] = "Gemini API error: "

(***************************************************************************)
(* C29  Routing of the multi-provider handler.  A provider id that is none *)
(* of gemini, ollama, groq, and a gemini or groq selection whose own key   *)
(* is not set, go to the default branch: Gemini is called when             *)
(* GEMINI_API_KEY is set, otherwise the request fails with "No AI provider *)
(* configured" and no call is made.  The id ollama always calls ollama,    *)
(* whatever keys are set.                                                  *)
(***************************************************************************)
GoesToDefault ==
    \/ env.AI_PROVIDER \notin {"", "gemini", "ollama", "groq"}
    \/ env.AI_PROVIDER \in {"", "gemini"} /\ ~env.GEMINI_API_KEY
    \/ env.AI_PROVIDER = "groq" /\ ~env.GROQ_API_KEY

LastStatus == replies[Len(replies)].err.status

C30_FailureStatus ==
    (handler = "fallback" /\ pc = "done" /\ response.kind = "error") =>
        /\ DispatcherFailed =>
              response.status =
                  (IF LastStatus >= 400 /\ LastStatus <= 599 THEN LastStatus ELSE 500)
        /\ (Len(replies) = 0 /\ (env.GEMINI_API_KEY \/ env.ALT_KEY)) => response.status = 400
        /\ LastReplyOk => response.status = 500

C30_Witness ==
    /\ handler = "fallback" /\ DispatcherFailed
    /\ LastStatus = 599
    /\ response.kind = "error" /\ response.status = 599


(***************************************************************************)
(* Vocabulary of the page component's properties                           *)
(***************************************************************************)
NothingToSend(p) == Trim(p.code) = << >> /\ ~p.file.present

ExactlyOneSet(p) == p.result.present # p.error.present

\* a step in which a request in flight settles
Settles == Len(page'.fetches) < Len(page.fetches)

\* a step in which a request is sent
Sends == Len(page'.fetches) > Len(page.fetches)

\* C31: in the page component, whatever the user does (editing the code,
\* selecting or dropping a file, clicking the enabled Debug button) and
\* whatever the server replies, result and error are never both non-null.
C31_ResultErrorExclusive == ~(page.result.present /\ page.error.present)

\* a result is shown, and the user has since emptied the textarea with no
\* file selected: the button is disabled, so the handler's own "nothing to
\* send" message cannot be added to the result
C31_Witness ==
    /\ page.result.present
    /\ ~page.loading
    /\ NothingToSend(page)
    /\ Disabled(page)

\* C32: at most one debug request is in flight, and only while loading is
\* true; no request carries neither non-blank code nor a file; sending a
\* request sets loading, and when the request settles (success, error
\* response, non-JSON response, network failure) loading is false again and
\* exactly one of result and error is set.
C32_OneRequestAtATime ==
    /\ [](/\ Len(page.fetches) <= 1
          /\ page.loading <=> (page.fetches # << >>)
          /\ \A i \in DOMAIN page.fetches :
                \/ page.fetches[i].file.present
                \/ (page.fetches[i].code.present
                      /\ Trim(page.fetches[i].code.text) # << >>))
    /\ [][/\ Sends => page'.loading
          /\ Settles => (~page'.loading /\ ExactlyOneSet(page'))]_vars

\* a request that carried only a file has settled with a network failure:
\* loading is false again and the error alone is set
C32_Witness ==
    /\ page.fetches = << >>
    /\ ~page.loading
    /\ page.file.present
    /\ Trim(page.code) = << >>
    /\ page.error = SomeMessage(<<"Failed to fetch">>)
    /\ ~page.result.present

=============================================================================
